---- MODULE Spec2Model ----
(***************************************************************************)
(* Model of src/src/lib.rs: the ID value type (ObjectId / String / Int64), *)
(* its conversions and its serde Serialize / Deserialize implementations.  *)
(*                                                                         *)
(* Every operation of the file is a pure function, so each one is an       *)
(* operator here, and the state machine draws an input and applies the     *)
(* operations to it one after the other (a bounded chain), recording which *)
(* operations ran.                                                         *)
(*                                                                         *)
(* Representation.                                                         *)
(*  - A string is a sequence of one-character strings.  Only ASCII is      *)
(*    drawn; a non-ASCII character can never be a hex digit and the prefix *)
(*    "$oid:" is ASCII, so the byte slice &s[5..] is the character slice.  *)
(*  - An ObjectId is its 12 bytes.                                         *)
(*  - TLC's integers are 32 bits wide, so a 64-bit quantity is four 16-bit *)
(*    limbs, most significant first.  A u64 is its limbs; an i64 is the    *)
(*    mathematical integer it denotes, [neg, mag], mag a limb sequence.    *)
(*  - A tagged union is a record with a tag and one field per variant, the *)
(*    fields of the other variants holding a fixed default.                *)
(***************************************************************************)
EXTENDS Integers, Sequences

VARIABLES src, prev, cur, trace

vars == <<src, prev, cur, trace>>

(***************************************************************************)
(* Bounds of the model.                                                    *)
(***************************************************************************)
\* number of leading ObjectId bytes that range over ByteSamples
MaxVary == 1
\* longest string drawn from Alphabet
MaxLen == 2
\* longest chain of operations applied to one input
MaxChain == 2

(***************************************************************************)
(* Characters and hexadecimal (hex::decode / hex::encode as used by        *)
(* ObjectId::with_string and ObjectId::to_hex).                            *)
(***************************************************************************)
HexLower == <<"0","1","2","3","4","5","6","7","8","9","a","b","c","d","e","f">>
HexUpper == <<"0","1","2","3","4","5","6","7","8","9","A","B","C","D","E","F">>

\* value of a hex digit of either case, -1 for any other character
HexVal(c) ==
    IF \E i \in 1..16 : HexLower[i] = c
    THEN (CHOOSE i \in 1..16 : HexLower[i] = c) - 1
    ELSE IF \E i \in 1..16 : HexUpper[i] = c
         THEN (CHOOSE i \in 1..16 : HexUpper[i] = c) - 1
         ELSE -1

\* hex::decode: odd length or a non-hex character is an error
hex_decode(s) ==
    IF Len(s) % 2 # 0 \/ (\E i \in 1..Len(s) : HexVal(s[i]) = -1)
    THEN [ok |-> FALSE, bytes |-> <<>>]
    ELSE [ok |-> TRUE,
          bytes |-> [i \in 1..(Len(s) \div 2) |->
                        HexVal(s[2*i - 1]) * 16 + HexVal(s[2*i])]]

\* the native id is 12 bytes
ObjectIdLen == 12

\* ObjectId::with_string: Ok(id) iff the text decodes to exactly 12 bytes
ObjectId_with_string(s) ==
    LET d == hex_decode(s)
    IN  IF d.ok /\ Len(d.bytes) = ObjectIdLen
        THEN [ok |-> TRUE, oid |-> d.bytes]
        ELSE [ok |-> FALSE, oid |-> <<>>]

\* ObjectId::to_hex (and ObjectId's Display): 24 lower-case hex digits
ObjectId_to_hex(o) ==
    [i \in 1..(2 * Len(o)) |->
        LET b == o[(i + 1) \div 2]
        IN  IF i % 2 = 1 THEN HexLower[(b \div 16) + 1] ELSE HexLower[(b % 16) + 1]]

(***************************************************************************)
(* 64-bit integers.                                                        *)
(***************************************************************************)
Limb == 0..(2^16 - 1)
U64Zero == <<0, 0, 0, 0>>
I64Zero == [neg |-> FALSE, mag |-> U64Zero]

\* limb-wise sum of two 4-limb numbers: [carry, limbs]
LimbAdd(a, b) ==
    LET s4 == a[4] + b[4]
        s3 == a[3] + b[3] + (s4 \div 2^16)
        s2 == a[2] + b[2] + (s3 \div 2^16)
        s1 == a[1] + b[1] + (s2 \div 2^16)
    IN  [carry |-> s1 \div 2^16,
         limbs |-> <<s1 % 2^16, s2 % 2^16, s3 % 2^16, s4 % 2^16>>]

\* two's-complement negation of a 64-bit pattern: complement, add one, wrap
LimbNeg(a) ==
    LimbAdd(<<2^16 - 1 - a[1], 2^16 - 1 - a[2], 2^16 - 1 - a[3], 2^16 - 1 - a[4]>>,
            <<0, 0, 0, 1>>).limbs

\* quotient and remainder of a 4-limb number by 10 (long division)
DivMod10(a) ==
    LET c1 == a[1]
        c2 == (c1 % 10) * 2^16 + a[2]
        c3 == (c2 % 10) * 2^16 + a[3]
        c4 == (c3 % 10) * 2^16 + a[4]
    IN  [q |-> <<c1 \div 10, c2 \div 10, c3 \div 10, c4 \div 10>>, r |-> c4 % 10]

RECURSIVE DecDigits(_)
DecDigits(a) ==
    IF a = U64Zero THEN <<>>
    ELSE LET d == DivMod10(a) IN DecDigits(d.q) \o <<HexLower[d.r + 1]>>

\* i64::to_string: decimal digits, a leading "-" for a negative number
i64_to_string(i) ==
    IF i.mag = U64Zero THEN <<"0">>
    ELSE (IF i.neg THEN <<"-">> ELSE <<>>) \o DecDigits(i.mag)

\* `v as i64` for v: u64: the same 64 bits read as two's complement
u64_as_i64(v) ==
    IF v[1] >= 2^15
    THEN [neg |-> TRUE, mag |-> LimbNeg(v)]
    ELSE [neg |-> FALSE, mag |-> v]

(***************************************************************************)
(* enum ID                                                                 *)
(***************************************************************************)
ID_ObjectId(o) == [tag |-> "ObjectId", oid |-> o, str |-> <<>>, int |-> I64Zero]
ID_String(s) == [tag |-> "String", oid |-> <<>>, str |-> s, int |-> I64Zero]
ID_Int64(i) == [tag |-> "Int64", oid |-> <<>>, str |-> <<>>, int |-> i]
NoID == [tag |-> "None", oid |-> <<>>, str |-> <<>>, int |-> I64Zero]

OidPrefix == <<"$", "o", "i", "d", ":">>

\* str::starts_with
starts_with(s, p) == Len(s) >= Len(p) /\ SubSeq(s, 1, Len(p)) = p

\* from_string keeping only the remainder when the id fails to parse
from_string_dropping_prefix(s) ==
    IF starts_with(s, OidPrefix)
    THEN LET r == ObjectId_with_string(SubSeq(s, 6, Len(s)))
         IN  IF r.ok THEN ID_ObjectId(r.oid) ELSE ID_String(SubSeq(s, 6, Len(s)))
    ELSE ID_String(s)

\* ID::from_string
from_string(s) ==
    IF starts_with(s, OidPrefix)
    THEN LET r == ObjectId_with_string(SubSeq(s, 6, Len(s)))
         IN  IF r.ok THEN ID_ObjectId(r.oid) ELSE ID_String(s)
    ELSE ID_String(s)

\* the display text with the native id written without its prefix
to_string_bare_hex(id) ==
    CASE id.tag = "ObjectId" -> ObjectId_to_hex(id.oid)
      [] id.tag = "String" -> id.str
      [] id.tag = "Int64" -> i64_to_string(id.int)

\* impl From<ID> for String, which ID::to_string and Display delegate to
to_string(id) ==
    CASE id.tag = "ObjectId" -> OidPrefix \o ObjectId_to_hex(id.oid)
      [] id.tag = "String" -> id.str
      [] id.tag = "Int64" -> i64_to_string(id.int)

\* equality through the display text instead of the derived comparison
ID_eq_by_text(a, b) == to_string(a) = to_string(b)

\* #[derive(PartialEq)]: same discriminant, then equal payloads
ID_eq(a, b) ==
    /\ a.tag = b.tag
    /\ CASE a.tag = "ObjectId" -> a.oid = b.oid
         [] a.tag = "String" -> a.str = b.str
         [] a.tag = "Int64" -> a.int = b.int
         [] OTHER -> TRUE

(***************************************************************************)
(* Bson, the database's dynamic value.  Only the kinds the operations can  *)
(* meet are modelled; a Document is a sequence of [k, v] entries in        *)
(* insertion order whose values are scalars.                               *)
(***************************************************************************)
NoBson == [kind |-> "None", oid |-> <<>>, str |-> <<>>, int |-> I64Zero, doc |-> <<>>]
Bson_ObjectId(o) == [NoBson EXCEPT !.kind = "ObjectId", !.oid = o]
Bson_String(s) == [NoBson EXCEPT !.kind = "String", !.str = s]
Bson_Int64(i) == [NoBson EXCEPT !.kind = "Int64", !.int = i]
Bson_Int32(i) == [NoBson EXCEPT !.kind = "Int32", !.int = i]
Bson_Document(d) == [NoBson EXCEPT !.kind = "Document", !.doc = d]
Bson_Other(k) == [NoBson EXCEPT !.kind = k]

\* with_bson sending a string node through the prefix rule of from_string
with_bson_reparsing(value) ==
    CASE value.kind = "String" -> [panic |-> FALSE, id |-> from_string(value.str)]
      [] value.kind = "ObjectId" -> [panic |-> FALSE, id |-> ID_ObjectId(value.oid)]
      [] value.kind = "Int64" -> [panic |-> FALSE, id |-> ID_Int64(value.int)]
      [] OTHER -> [panic |-> TRUE, id |-> NoID]

\* ID::with_bson: the three id kinds map to the variants, any other kind panics
with_bson(value) ==
    CASE value.kind = "String" -> [panic |-> FALSE, id |-> ID_String(value.str)]
      [] value.kind = "ObjectId" -> [panic |-> FALSE, id |-> ID_ObjectId(value.oid)]
      [] value.kind = "Int64" -> [panic |-> FALSE, id |-> ID_Int64(value.int)]
      [] OTHER -> [panic |-> TRUE, id |-> NoID]

\* ID::to_bson
to_bson(id) ==
    CASE id.tag = "ObjectId" -> Bson_ObjectId(id.oid)
      [] id.tag = "String" -> Bson_String(id.str)
      [] id.tag = "Int64" -> Bson_Int64(id.int)

\* ID::with_string, ID::with_oid, impl From<ObjectId> for ID
ID_with_string(s) == ID_String(s)
with_oid(o) == ID_ObjectId(o)

\* A number handed to ID::with_i64 / ID::from: its source width and the low
\* bits it carries (u8: 8 bits, u32: 32 bits, i64: all 64, two's complement).
Num(w, bits) == [width |-> w, bits |-> bits]
NoNum == Num("i64", U64Zero)

\* Into<i64>: u8 and u32 are zero-extended, an i64 is itself
into_i64(n) ==
    CASE n.width = "u8" -> [neg |-> FALSE, mag |-> <<0, 0, 0, n.bits[4] % 2^8>>]
      [] n.width = "u32" -> [neg |-> FALSE, mag |-> <<0, 0, n.bits[3], n.bits[4]>>]
      [] n.width = "i64" -> u64_as_i64(n.bits)

\* ID::with_i64 and impl From<i64> for ID
with_i64(n) == ID_Int64(into_i64(n))

\* the conversion to a native id reading a String through from_string first
into_ObjectId_stripping_prefix(id) ==
    CASE id.tag = "ObjectId" -> [panic |-> FALSE, oid |-> id.oid]
      [] id.tag = "String" ->
            LET x == from_string(id.str)
            IN  [panic |-> x.tag # "ObjectId", oid |-> x.oid]
      [] id.tag = "Int64" ->
            LET r == ObjectId_with_string(i64_to_string(id.int))
            IN  [panic |-> ~r.ok, oid |-> r.oid]

\* impl From<ID> for ObjectId: with_string(..).unwrap() panics on Err
into_ObjectId(id) ==
    CASE id.tag = "ObjectId" -> [panic |-> FALSE, oid |-> id.oid]
      [] id.tag = "String" ->
            LET r == ObjectId_with_string(id.str)
            IN  [panic |-> ~r.ok, oid |-> r.oid]
      [] id.tag = "Int64" ->
            LET r == ObjectId_with_string(i64_to_string(id.int))
            IN  [panic |-> ~r.ok, oid |-> r.oid]

(***************************************************************************)
(* The serde data model: what ID::serialize hands to a Serializer and what *)
(* a self-describing Deserializer hands to IDVisitor.  A map's entries are *)
(* [k, v] with scalar v.                                                   *)
(***************************************************************************)
NoData == [shape |-> "none", str |-> <<>>, int |-> I64Zero, u |-> U64Zero, entries |-> <<>>]
Data_str(s) == [NoData EXCEPT !.shape = "str", !.str = s]
Data_i64(i) == [NoData EXCEPT !.shape = "i64", !.int = i]
Data_i32(i) == [NoData EXCEPT !.shape = "i32", !.int = i]
Data_u64(v) == [NoData EXCEPT !.shape = "u64", !.u = v]
Data_map(es) == [NoData EXCEPT !.shape = "map", !.entries = es]
Data_other(k) == [NoData EXCEPT !.shape = k]

OidKey == <<"$", "o", "i", "d">>

\* Serialize writing the native id as its display text
serialize_as_text(id) ==
    CASE id.tag = "ObjectId" -> Data_str(OidPrefix \o ObjectId_to_hex(id.oid))
      [] id.tag = "String" -> Data_str(id.str)
      [] id.tag = "Int64" -> Data_i64(id.int)

\* impl Serialize for ID
serialize(id) ==
    CASE id.tag = "ObjectId" ->
            Data_map(<<[k |-> OidKey, v |-> Data_str(ObjectId_to_hex(id.oid))]>>)
      [] id.tag = "String" -> Data_str(id.str)
      [] id.tag = "Int64" -> Data_i64(id.int)

\* Document::insert: a repeated key replaces the value in place
doc_insert(d, k, v) ==
    IF \E i \in 1..Len(d) : d[i].k = k
    THEN [i \in 1..Len(d) |-> IF d[i].k = k THEN [k |-> k, v |-> v] ELSE d[i]]
    ELSE Append(d, [k |-> k, v |-> v])

\* Bson's own visitor on a scalar: an unsigned value becomes the narrowest
\* signed kind holding it and is an error above i64::MAX
bson_visit_scalar(d) ==
    CASE d.shape = "str" -> [ok |-> TRUE, bson |-> Bson_String(d.str)]
      [] d.shape = "i64" -> [ok |-> TRUE, bson |-> Bson_Int64(d.int)]
      [] d.shape = "i32" -> [ok |-> TRUE, bson |-> Bson_Int32(d.int)]
      [] d.shape = "u64" ->
            IF d.u[1] >= 2^15 THEN [ok |-> FALSE, bson |-> NoBson]
            ELSE IF d.u[1] = 0 /\ d.u[2] = 0 /\ d.u[3] < 2^15
                 THEN [ok |-> TRUE, bson |-> Bson_Int32([neg |-> FALSE, mag |-> d.u])]
                 ELSE [ok |-> TRUE, bson |-> Bson_Int64([neg |-> FALSE, mag |-> d.u])]
      [] d.shape = "bool" -> [ok |-> TRUE, bson |-> Bson_Other("Boolean")]
      [] d.shape = "unit" -> [ok |-> TRUE, bson |-> Bson_Other("Null")]
      [] d.shape = "f64" -> [ok |-> TRUE, bson |-> Bson_Other("Double")]
      [] d.shape = "seq" -> [ok |-> TRUE, bson |-> Bson_Other("Array")]
      [] OTHER -> [ok |-> FALSE, bson |-> NoBson]

RECURSIVE doc_collect(_, _)
doc_collect(es, acc) ==
    IF es = <<>> THEN [ok |-> TRUE, doc |-> acc]
    ELSE LET r == bson_visit_scalar(Head(es).v)
         IN  IF ~r.ok THEN [ok |-> FALSE, doc |-> <<>>]
             ELSE doc_collect(Tail(es), doc_insert(acc, Head(es).k, r.bson))

\* Bson::from_extended_document for the "$oid" shape; the keys drawn here name
\* no other extended-JSON shape, so every other document stays a Document
from_extended_document(d) ==
    IF Len(d) = 1 /\ d[1].k = OidKey /\ d[1].v.kind = "String"
    THEN LET r == ObjectId_with_string(d[1].v.str)
         IN  IF r.ok THEN Bson_ObjectId(r.oid) ELSE Bson_Document(d)
    ELSE Bson_Document(d)

\* Bson::deserialize(MapAccessDeserializer::new(access))
Bson_deserialize_map(es) ==
    LET r == doc_collect(es, <<>>)
    IN  IF r.ok THEN [ok |-> TRUE, bson |-> from_extended_document(r.doc)]
        ELSE [ok |-> FALSE, bson |-> NoBson]

\* outcome of a decode: "ok" with an id, a recoverable "err", or a "panic"
Outcome(res, id) == [res |-> res, id |-> id]

\* IDVisitor::visit_map
visit_map(es) ==
    LET r == Bson_deserialize_map(es)
    IN  IF ~r.ok THEN Outcome("err", NoID)
        ELSE LET w == with_bson(r.bson)
             IN  IF w.panic THEN Outcome("panic", NoID) ELSE Outcome("ok", w.id)

\* IDVisitor::visit_str and visit_string
visit_str(v) == Outcome("ok", from_string(v))

\* IDVisitor::visit_i64 (serde's visit_i8/i16/i32 defaults forward here)
visit_i64(v) == Outcome("ok", ID_Int64(v))

\* visit_u64 clamping to i64::MAX instead of wrapping
visit_u64_saturating(v) ==
    Outcome("ok", ID_Int64([neg |-> FALSE,
                            mag |-> IF v[1] >= 2^15
                                    THEN <<2^15 - 1, 2^16 - 1, 2^16 - 1, 2^16 - 1>>
                                    ELSE v]))

\* IDVisitor::visit_u64 (serde's visit_u8/u16/u32 defaults forward here)
visit_u64(v) == Outcome("ok", ID_Int64(u64_as_i64(v)))

\* Deserialize with a visit_bool and a visit_unit that coerce
deserialize_coercing(d) ==
    CASE d.shape = "map" -> visit_map(d.entries)
      [] d.shape = "str" -> visit_str(d.str)
      [] d.shape = "i64" -> visit_i64(d.int)
      [] d.shape = "i32" -> visit_i64(d.int)
      [] d.shape = "u64" -> visit_u64(d.u)
      [] d.shape = "bool" -> visit_u64(<<0, 0, 0, 1>>)
      [] d.shape = "unit" -> visit_str(<<>>)
      [] OTHER -> Outcome("err", NoID)

\* impl Deserialize for ID: deserialize_any(IDVisitor); a shape IDVisitor has
\* no method for takes serde's default, Err(invalid_type)
deserialize(d) ==
    CASE d.shape = "map" -> visit_map(d.entries)
      [] d.shape = "str" -> visit_str(d.str)
      [] d.shape = "i64" -> visit_i64(d.int)
      [] d.shape = "i32" -> visit_i64(d.int)
      [] d.shape = "u64" -> visit_u64(d.u)
      [] OTHER -> Outcome("err", NoID)

(***************************************************************************)
(* The binary-document codec around the two impls: bson's Serializer       *)
(* receiving what ID::serialize emits, and bson's Deserializer presenting  *)
(* a Bson to IDVisitor.                                                    *)
(***************************************************************************)
\* bson::Serializer: serialize_str, serialize_i64, and serialize_map whose
\* end() is from_extended_document of the collected entries
bson_serializer(d) ==
    CASE d.shape = "map" -> Bson_deserialize_map(d.entries).bson
      [] d.shape = "str" -> Bson_String(d.str)
      [] d.shape = "i64" -> Bson_Int64(d.int)

\* bson::Deserializer::deserialize_any on a scalar
bson_present_scalar(b) ==
    CASE b.kind = "String" -> Data_str(b.str)
      [] b.kind = "Int64" -> Data_i64(b.int)
      [] b.kind = "Int32" -> Data_i32(b.int)
      [] b.kind = "Double" -> Data_other("f64")
      [] b.kind = "Boolean" -> Data_other("bool")
      [] b.kind = "Null" -> Data_other("unit")
      [] b.kind = "Array" -> Data_other("seq")
      [] OTHER -> Data_other("none")

\* bson::Deserializer::deserialize_any: a Document is a map, an ObjectId is
\* the map of its extended document {"$oid": hex}
bson_deserializer(b) ==
    CASE b.kind = "Document" ->
            Data_map([i \in 1..Len(b.doc) |->
                        [k |-> b.doc[i].k, v |-> bson_present_scalar(b.doc[i].v)]])
      [] b.kind = "ObjectId" ->
            Data_map(<<[k |-> OidKey, v |-> Data_str(ObjectId_to_hex(b.oid))]>>)
      [] OTHER -> bson_present_scalar(b)

\* bson::to_bson(&id)
bson_encode(id) == bson_serializer(serialize(id))

\* bson::from_bson::<ID>(b)
bson_decode(b) == deserialize(bson_deserializer(b))

(***************************************************************************)
(* Inputs.                                                                 *)
(***************************************************************************)
\* the id of tests::test_convert_id_from_oid, 5eaefffa00c9fdf000c46fdc
TestOid == <<94, 174, 255, 250, 0, 201, 253, 240, 0, 196, 111, 220>>
ByteSamples == {0, 94, 171, 255}

Oids ==
    { [i \in 1..ObjectIdLen |-> IF i <= MaxVary THEN f[i] ELSE TestOid[i]] :
        f \in [1..MaxVary -> ByteSamples] }

\* str::to_uppercase on hex text
Upper(s) == [i \in 1..Len(s) |-> IF HexVal(s[i]) >= 0 THEN HexUpper[HexVal(s[i]) + 1] ELSE s[i]]

I64Max == [neg |-> FALSE, mag |-> <<2^15 - 1, 2^16 - 1, 2^16 - 1, 2^16 - 1>>]
I64Min == [neg |-> TRUE, mag |-> <<2^15, 0, 0, 0>>]
Small(n) == <<0, 0, 0, n>>

I64Samples ==
    { [neg |-> FALSE, mag |-> Small(n)] : n \in {0, 5, 8, 32, 64, 255} }
    \cup { [neg |-> TRUE, mag |-> Small(n)] : n \in {1, 5} }
    \cup { [neg |-> FALSE, mag |-> <<0, 0, 2^16 - 1, 2^16 - 1>>],
           [neg |-> FALSE, mag |-> <<0, 1, 0, 0>>],
           [neg |-> TRUE, mag |-> <<3567, 9999, 0, 1>>],
           I64Max, I64Min }

U64Samples ==
    { Small(0), Small(5), <<0, 0, 2^15 - 1, 2^16 - 1>>, <<0, 0, 2^15, 0>>,
      I64Max.mag, <<2^15, 0, 0, 0>>, <<2^15, 0, 0, 5>>, <<2^15 + 1, 7, 0, 0>>,
      <<2^16 - 1, 2^16 - 1, 2^16 - 1, 2^16 - 1>> }

NumSamples ==
    { Num("u8", Small(n)) : n \in {0, 8, 127, 128, 255} }
    \cup { Num("u32", b) : b \in {Small(32), <<0, 0, 2^15, 0>>, <<0, 0, 2^16 - 1, 2^16 - 1>>} }
    \cup { Num("i64", b) : b \in {Small(64), I64Max.mag, <<2^15, 0, 0, 0>>,
                                   <<2^16 - 1, 2^16 - 1, 2^16 - 1, 2^16 - 1>>} }

Alphabet == {"$", "5", "g"}
RECURSIVE StrsUpTo(_)
StrsUpTo(n) ==
    IF n = 0 THEN {<<>>}
    ELSE LET S == StrsUpTo(n - 1)
         IN  S \cup { Append(s, c) : s \in {x \in S : Len(x) = n - 1}, c \in Alphabet }

NotValid == <<"n", "o", "t", "_", "v", "a", "l", "i", "d">>
Something == <<"S", "o", "m", "e", "t", "h", "i", "n", "g">>

\* texts after a possible prefix: each id's hex in both cases, the hex one
\* character or one byte short, one byte long, with a non-hex character,
\* prefixed a second time; decimal numbers; plain words
Bodies ==
    UNION { LET h == ObjectId_to_hex(o)
            IN  { h, Upper(h), SubSeq(h, 1, 23), SubSeq(h, 1, 22), h \o <<"0", "0">>,
                  SubSeq(h, 1, 23) \o <<"g">>, OidPrefix \o h } : o \in Oids }
    \cup { i64_to_string(i) : i \in I64Samples }
    \cup { NotValid, Something }

Prefixes ==
    { <<>>, OidPrefix, OidKey, <<"$", "O", "I", "D", ":">>, <<" ">> \o OidPrefix }

Strs == { p \o b : p \in Prefixes, b \in Bodies } \cup StrsUpTo(MaxLen)

IDs ==
    { ID_ObjectId(o) : o \in Oids } \cup { ID_String(s) : s \in Strs }
    \cup { ID_Int64(i) : i \in I64Samples }

\* scalars inside a map or a document
ScalarStrs == { ObjectId_to_hex(TestOid), Upper(ObjectId_to_hex(TestOid)), NotValid }
ScalarData ==
    { Data_str(s) : s \in ScalarStrs }
    \cup { Data_u64(Small(5)), Data_u64(<<2^15, 0, 0, 0>>), Data_i64(I64Min),
           Data_other("bool"), Data_other("unit") }
Keys == { OidKey, <<"a">> }
MapEntries ==
    { <<>> } \cup { <<[k |-> k, v |-> v]>> : k \in Keys, v \in ScalarData }
    \cup { <<[k |-> k1, v |-> v1], [k |-> k2, v |-> Data_str(NotValid)]>> :
             k1 \in Keys, k2 \in Keys, v1 \in ScalarData }

\* what a text-codec deserializer can present
DataInputs ==
    { Data_str(s) : s \in Strs }
    \cup { Data_i64(i) : i \in {x \in I64Samples : x.neg} }
    \cup { Data_u64(v) : v \in U64Samples }
    \cup { Data_other(k) : k \in {"bool", "seq", "unit", "f64"} }
    \cup { Data_map(es) : es \in MapEntries }
    \cup { Data_map(<<[k |-> OidKey, v |-> Data_str(ObjectId_to_hex(o))]>>) : o \in Oids }

ScalarBson == { Bson_String(s) : s \in ScalarStrs } \cup { Bson_Int64(I64Min), Bson_Other("Null") }
BsonInputs ==
    { to_bson(x) : x \in IDs }
    \cup { Bson_Other(k) : k \in {"Double", "Boolean", "Null", "Array"} }
    \cup { Bson_Int32([neg |-> FALSE, mag |-> Small(5)]), Bson_Document(<<>>) }
    \cup { Bson_Document(<<[k |-> k, v |-> v]>>) : k \in Keys, v \in ScalarBson }

(***************************************************************************)
(* The state: the input drawn (src), the value the chain has reached (cur),*)
(* the value the last operation was applied to (prev) and the operations   *)
(* applied so far (trace).                                                 *)
(***************************************************************************)
Blank ==
    [kind |-> "none", id |-> NoID, id2 |-> NoID, str |-> <<>>, bson |-> NoBson,
     data |-> NoData, oid |-> <<>>, num |-> NoNum, flag |-> FALSE]
V_id(x) == [Blank EXCEPT !.kind = "id", !.id = x]
V_str(s) == [Blank EXCEPT !.kind = "str", !.str = s]
V_bson(b) == [Blank EXCEPT !.kind = "bson", !.bson = b]
V_data(d) == [Blank EXCEPT !.kind = "data", !.data = d]
V_oid(o) == [Blank EXCEPT !.kind = "oid", !.oid = o]
V_num(n) == [Blank EXCEPT !.kind = "num", !.num = n]
V_cmp(a, b, r) == [Blank EXCEPT !.kind = "cmp", !.id = a, !.id2 = b, !.flag = r]
V_panic == [Blank EXCEPT !.kind = "panic"]
V_err == [Blank EXCEPT !.kind = "err"]

V_outcome(r) ==
    CASE r.res = "ok" -> V_id(r.id)
      [] r.res = "err" -> V_err
      [] r.res = "panic" -> V_panic

Inputs ==
    { V_id(x) : x \in IDs } \cup { V_str(s) : s \in Strs }
    \cup { V_bson(b) : b \in BsonInputs } \cup { V_data(d) : d \in DataInputs }
    \cup { V_oid(o) : o \in Oids } \cup { V_num(n) : n \in NumSamples }

Init ==
    /\ src \in Inputs
    /\ prev = src
    /\ cur = src
    /\ trace = <<>>

\* one more operation may be applied to a value of kind k
Ready(k) == cur.kind = k /\ Len(trace) < MaxChain

Step(name, v) ==
    /\ prev' = cur
    /\ cur' = v
    /\ trace' = Append(trace, name)
    /\ UNCHANGED src

FromString == Ready("str") /\ Step("from_string", V_id(from_string(cur.str)))

WithString == Ready("str") /\ Step("with_string", V_id(ID_with_string(cur.str)))

ToString == Ready("id") /\ Step("to_string", V_str(to_string(cur.id)))

WithOid == Ready("oid") /\ Step("with_oid", V_id(with_oid(cur.oid)))

WithI64 == Ready("num") /\ Step("with_i64", V_id(with_i64(cur.num)))

WithBson ==
    /\ Ready("bson")
    /\ LET w == with_bson(cur.bson)
       IN  Step("with_bson", IF w.panic THEN V_panic ELSE V_id(w.id))

ToBson == Ready("id") /\ Step("to_bson", V_bson(to_bson(cur.id)))

IntoObjectId ==
    /\ Ready("id")
    /\ LET r == into_ObjectId(cur.id)
       IN  Step("into_oid", IF r.panic THEN V_panic ELSE V_oid(r.oid))

\* the text codec: ID::serialize into a self-describing value, ID::deserialize
\* from one
Serialize == Ready("id") /\ Step("serialize", V_data(serialize(cur.id)))

Deserialize == Ready("data") /\ Step("deserialize", V_outcome(deserialize(cur.data)))

\* the binary-document codec
BsonEncode == Ready("id") /\ Step("bson_encode", V_bson(bson_encode(cur.id)))

BsonDecode == Ready("bson") /\ Step("bson_decode", V_outcome(bson_decode(cur.bson)))

\* ids an id is compared with: itself, its text as a String, its text read
\* back, and every sampled integer and native id
Others(x) ==
    { x, ID_String(to_string(x)), from_string(to_string(x)) }
    \cup { ID_Int64(i) : i \in I64Samples } \cup { ID_ObjectId(o) : o \in Oids }

Eq ==
    /\ Ready("id")
    /\ \E y \in Others(cur.id) : Step("eq", V_cmp(cur.id, y, ID_eq(cur.id, y)))

Next ==
    \/ FromString
    \/ WithString
    \/ ToString
    \/ WithOid
    \/ WithI64
    \/ WithBson
    \/ ToBson
    \/ IntoObjectId
    \/ Serialize
    \/ Deserialize
    \/ BsonEncode
    \/ BsonDecode
    \/ Eq

Spec == Init /\ [][Next]_vars

(***************************************************************************)
(* Properties.                                                             *)
(***************************************************************************)
LastOp == IF trace = <<>> THEN "" ELSE trace[Len(trace)]

IsHexDigit(c) ==
    c \in { HexLower[i] : i \in 1..16 } \cup { HexUpper[i] : i \in 1..16 }

\* a text that is a native id: 24 hex digits of either case
IsOidText(r) == Len(r) = 2 * ObjectIdLen /\ \A i \in 1..Len(r) : IsHexDigit(r[i])

\* the id o is the one the text r spells
Spells(r, o) == Len(o) = ObjectIdLen /\ Upper(ObjectId_to_hex(o)) = Upper(r)

HasOidPrefix(s) ==
    Len(s) >= 5 /\ s[1] = "$" /\ s[2] = "o" /\ s[3] = "i" /\ s[4] = "d" /\ s[5] = ":"

TestHex == ObjectId_to_hex(TestOid)

\* C1: from_string never fails; it returns ObjectId(o) when the string starts
\* with "$oid:" and the rest spells a native id o, and otherwise String(s)
\* holding the whole original string, prefix included.
C1_from_string ==
    LastOp = "from_string" =>
        LET s == prev.str
        IN  /\ cur.kind = "id"
            /\ IF HasOidPrefix(s) /\ IsOidText(SubSeq(s, 6, Len(s)))
               THEN /\ cur.id = ID_ObjectId(cur.id.oid)
                    /\ Spells(SubSeq(s, 6, Len(s)), cur.id.oid)
               ELSE cur.id = ID_String(s)

\* "$oid:not_valid" has become String("$oid:not_valid")
C1_witness ==
    /\ LastOp = "from_string"
    /\ prev.str = OidPrefix \o NotValid
    /\ cur.id = ID_String(OidPrefix \o NotValid)

\* C2: a string without the "$oid:" prefix becomes String(s) and its text is
\* s again; "$oid:" + hex(o) becomes ObjectId(o) and its text is that string
\* again.
C2_string_round_trip ==
    trace = <<"from_string", "to_string">> =>
        /\ ~HasOidPrefix(src.str) =>
              (prev.id = ID_String(src.str) /\ cur = V_str(src.str))
        /\ \A o \in Oids :
              src.str = OidPrefix \o ObjectId_to_hex(o) =>
                  (prev.id = ID_ObjectId(o) /\ cur = V_str(src.str))

\* the test's id has gone through from_string and to_string
C2_witness ==
    /\ trace = <<"from_string", "to_string">>
    /\ src.str = OidPrefix \o TestHex
    /\ prev.id = ID_ObjectId(TestOid)
    /\ cur.str = src.str

\* C3: encoding an ID with the binary-document codec and decoding the result
\* gives back the same variant with the same value, for all three variants.
C3_bson_codec_round_trip ==
    trace = <<"bson_encode", "bson_decode">> => cur = V_id(src.id)

\* C4: to_bson yields the node kind of the variant and with_bson of it is the
\* original ID, for all three variants.
C4_with_bson_inverts_to_bson ==
    trace = <<"to_bson", "with_bson">> =>
        /\ prev.bson.kind = src.id.tag
        /\ prev.bson.kind \in {"ObjectId", "String", "Int64"}
        /\ cur = V_id(src.id)

\* a String spelling a prefixed native id has come back as that String
C4_witness ==
    /\ trace = <<"to_bson", "with_bson">>
    /\ src.id = ID_String(OidPrefix \o TestHex)
    /\ cur = V_id(src.id)

\* C5: Serialize emits, for ObjectId(o), a map of exactly one entry, "$oid" to
\* the 24 hex digits of o (a plain string for String, a plain number for
\* Int64), and decoding that map yields ObjectId(o).
C5_text_codec_oid_map ==
    /\ LastOp = "serialize" =>
          CASE prev.id.tag = "ObjectId" ->
                  /\ cur.data.shape = "map"
                  /\ Len(cur.data.entries) = 1
                  /\ cur.data.entries[1].k = <<"$", "o", "i", "d">>
                  /\ cur.data.entries[1].v = Data_str(ObjectId_to_hex(prev.id.oid))
                  /\ IsOidText(cur.data.entries[1].v.str)
                  /\ Spells(cur.data.entries[1].v.str, prev.id.oid)
            [] prev.id.tag = "String" -> cur.data = Data_str(prev.id.str)
            [] prev.id.tag = "Int64" -> cur.data = Data_i64(prev.id.int)
    /\ (trace = <<"serialize", "deserialize">> /\ src.id.tag = "ObjectId") =>
          cur = V_id(src.id)
    /\ trace = <<"deserialize">> =>
          \A o \in Oids :
              src.data = Data_map(<<[k |-> OidKey, v |-> Data_str(ObjectId_to_hex(o))]>>) =>
                  cur = V_id(ID_ObjectId(o))

\* the test's id has been written as a map and read back
C5_witness ==
    /\ trace = <<"serialize", "deserialize">>
    /\ src.id = ID_ObjectId(TestOid)
    /\ prev.data.shape = "map"
    /\ cur = V_id(src.id)

\* C6: decoding a boolean, an array, a null or a float is a decode error: no
\* ID is produced and nothing panics.
C6_unsupported_shape_is_error ==
    (LastOp = "deserialize" /\ prev.data.shape \in {"bool", "seq", "unit", "f64"}) =>
        cur.kind = "err"

\* a boolean has been refused
C6_witness ==
    /\ trace = <<"deserialize">>
    /\ src.data.shape = "bool"
    /\ cur.kind = "err"

\* C7: two IDs are equal iff they have the same variant and the same inner
\* value, so IDs of different variants are never equal; and an Int64 built by
\* with_i64 from a u8 or u32 carrying n equals Int64(n).
C7_structural_equality ==
    /\ LastOp = "eq" =>
          /\ cur.flag <=> (cur.id = cur.id2)
          /\ cur.id.tag # cur.id2.tag => ~cur.flag
    /\ (LastOp = "with_i64" /\ prev.num.width \in {"u8", "u32"}) =>
          cur = V_id(ID_Int64([neg |-> FALSE, mag |-> prev.num.bits]))
    /\ (trace = <<"with_i64", "eq">> /\ src.num.width \in {"u8", "u32"}
          /\ cur.id2 = ID_Int64([neg |-> FALSE, mag |-> src.num.bits])) =>
          cur.flag

\* Int64(5) has been compared with String("5") and found different
C7_witness ==
    /\ trace = <<"eq">>
    /\ src.id = ID_Int64([neg |-> FALSE, mag |-> Small(5)])
    /\ cur.id2 = ID_String(<<"5">>)
    /\ ~cur.flag

\* C8: decoding a map yields one of the three variants or a decode error.
C8_map_decodes_or_errors ==
    (LastOp = "deserialize" /\ prev.data.shape = "map") => cur.kind \in {"id", "err"}

\* C9: the conversion to a native id returns o for ObjectId(o); for String(s)
\* it returns the id s spells when the whole of s is 24 hex digits and panics
\* otherwise (no prefix is stripped); for Int64 it always panics, the decimal
\* text being at most 20 characters.
C9_into_ObjectId ==
    LastOp = "into_oid" =>
        CASE prev.id.tag = "ObjectId" -> cur = V_oid(prev.id.oid)
          [] prev.id.tag = "String" ->
                IF IsOidText(prev.id.str)
                THEN cur.kind = "oid" /\ Spells(prev.id.str, cur.oid)
                ELSE cur.kind = "panic"
          [] prev.id.tag = "Int64" ->
                /\ cur.kind = "panic"
                /\ Len(i64_to_string(prev.id.int)) <= 20

\* a String holding a prefixed, valid id has made the conversion panic
C9_witness ==
    /\ LastOp = "into_oid"
    /\ prev.id = ID_String(OidPrefix \o TestHex)
    /\ cur.kind = "panic"

\* C10: a signed scalar v decodes to Int64(v); an unsigned v decodes to
\* Int64(v) when v <= 2^63 - 1 and to the negative Int64(v - 2^64) when
\* v >= 2^63, never to an error.
C10_integer_scalars ==
    LastOp = "deserialize" =>
        /\ prev.data.shape = "i64" => cur = V_id(ID_Int64(prev.data.int))
        /\ prev.data.shape = "u64" =>
              LET v == prev.data.u
              IN  /\ cur.kind = "id"
                  /\ cur.id.tag = "Int64"
                  /\ IF v[1] < 2^15
                     THEN cur.id = ID_Int64([neg |-> FALSE, mag |-> v])
                     ELSE /\ cur.id.int.neg
                          /\ LimbAdd(cur.id.int.mag, v) = [carry |-> 1, limbs |-> U64Zero]

\* 2^63 + 5 has decoded to a negative Int64
C10_witness ==
    /\ trace = <<"deserialize">>
    /\ src.data = Data_u64(<<2^15, 0, 0, 5>>)
    /\ cur.kind = "id"
    /\ cur.id.int = [neg |-> TRUE, mag |-> <<2^15 - 1, 2^16 - 1, 2^16 - 1, 2^16 - 5>>]

====
